---- MODULE Spec2Model ----
(***************************************************************************)
(* Model of the market-data pipeline of AKShareSummer.py:                  *)
(* download_gold_training_data (download, alignment, basis, China 10Y      *)
(* yield reconciliation, final fill, CSV export) and run_market_analysis   *)
(* (auxiliary tables, snapshot extraction, snapshot JSON, report files).   *)
(*                                                                         *)
(* Dates are day numbers.  Prices are integers; yields are tenths of a     *)
(* percent, so the literal 2.5 of the source is 25.  A table cell is       *)
(* either NaN or Num(v); None is Python's None.                            *)
(***************************************************************************)
EXTENDS Integers, Sequences, FiniteSets, TLC

\* ------------------------------------------------------------------ bounds
\* Panel dates are drawn from 1..MaxDay; an auxiliary source returns at most
\* MaxAux observations, dated in 0..MaxDay+1 (before, inside and after the
\* Panel's range).
MaxDay == 3
MaxAux == 2
\* The spread series of the indicator script holds at most MaxObs
\* observations.
MaxObs == 4

\* --------------------------------------------------------- program constants
years == 1
DaysPerYear == 365
DefaultPeriods == 365
DefaultYield == 25

\* datetime.now() as a day number: day 1 is the first day of the download
\* window (start_date = now - years * 365 days).
Today == years * DaysPerYear + 1

Days == 1..MaxDay
AuxDays == 0..(MaxDay + 1)
\* Two distinct prices and two distinct yields (neither equal to the default)
\* tell a carried-over cell from its neighbours.
Prices == {1, 2}
Yields == {20, 30}

\* ------------------------------------------------------------------- values
None == [kind |-> "none"]
NaN == [kind |-> "nan"]
Num(v) == [kind |-> "num", v |-> v]

Range(s) == {s[i] : i \in DOMAIN s}
Min(S) == CHOOSE x \in S : \A y \in S : x <= y
Max(S) == CHOOSE x \in S : \A y \in S : y <= x

RECURSIVE SortedSeq(_)
SortedSeq(S) == IF S = {} THEN <<>> ELSE <<Min(S)>> \o SortedSeq(S \ {Min(S)})

Pos(s, x) == CHOOSE i \in DOMAIN s : s[i] = x

\* A DataFrame: index (row labels in row order), columns (names in column
\* order) and data[column][label].
Frame(index, columns, data) == [index |-> index, columns |-> columns, data |-> data]

\* DataFrame.empty: no rows or no columns.
IsEmpty(frame) == Len(frame.index) = 0 \/ Len(frame.columns) = 0

\* `name in frame.columns`
HasColumn(frame, name) == name \in Range(frame.columns)

\* frame[name] = col (a new column is appended on the right).
SetColumn(frame, name, col) == Frame(frame.index, IF HasColumn(frame, name) THEN frame.columns ELSE Append(frame.columns, name), [c \in Range(frame.columns) \cup {name} |-> IF c = name THEN col ELSE frame.data[c]])

\* ---------------------------------------------------------------- tickers
GoldSpot == "GOLD_spot_price"
GoldFuture == "GOLD_near_month_future"
GoldBasis == "GOLD_basis_spot_vs_near"
ChinaYield == "China_10Y_Treasury_Yield"

\* The two tickers the basis is computed from (of the 27 the source lists).
tickers_to_download == ("GC=F" :> GoldSpot) @@ ("MGC=F" :> GoldFuture)
Tickers == <<"GC=F", "MGC=F">>

\* ------------------------------------------------------- pandas operations
\* DataFrame.rename(columns=mapping): names not in the mapping are kept.
Renamed(mapping, c) == IF c \in DOMAIN mapping THEN mapping[c] ELSE c
rename(frame, mapping) == Frame(frame.index, [i \in DOMAIN frame.columns |-> Renamed(mapping, frame.columns[i])], [c \in {Renamed(mapping, t) : t \in Range(frame.columns)} |-> frame.data[CHOOSE t \in Range(frame.columns) : Renamed(mapping, t) = c]])

\* DataFrame.sort_index(): rows in ascending label order.
sort_index(frame) == Frame(SortedSeq(Range(frame.index)), frame.columns, frame.data)

\* A column with no defined cell.
AllNa(frame, c) == \A d \in Range(frame.index) : frame.data[c][d] = NaN

\* DataFrame.dropna(axis=1, how='all').
dropna_all_mut(frame) == LET keep == SelectSeq(frame.columns, LAMBDA c : \A d \in Range(frame.index) : frame.data[c][d] # NaN) IN Frame(frame.index, keep, [c \in Range(keep) |-> frame.data[c]])
dropna_all(frame) == LET keep == SelectSeq(frame.columns, LAMBDA c : ~AllNa(frame, c)) IN Frame(frame.index, keep, [c \in Range(keep) |-> frame.data[c]])

\* Forward fill along the row order: an undefined cell takes the value of
\* the row before it, after that row was filled.
RECURSIVE FfillAt(_, _, _)
FfillAt(index, col, i) == IF col[index[i]] # NaN THEN col[index[i]] ELSE IF i = 1 THEN NaN ELSE FfillAt(index, col, i - 1)

\* Backward fill: an undefined cell takes the value of the row after it.
RECURSIVE BfillAt(_, _, _)
BfillAt(index, col, i) == IF col[index[i]] # NaN THEN col[index[i]] ELSE IF i = Len(index) THEN NaN ELSE BfillAt(index, col, i + 1)

ffill_mut(frame) == Frame(frame.index, frame.columns, [c \in DOMAIN frame.data |-> [d \in Range(frame.index) |-> BfillAt(frame.index, frame.data[c], Pos(frame.index, d))]])
ffill(frame) == Frame(frame.index, frame.columns, [c \in DOMAIN frame.data |-> [d \in Range(frame.index) |-> FfillAt(frame.index, frame.data[c], Pos(frame.index, d))]])

bfill_mut(frame) == frame
bfill(frame) == Frame(frame.index, frame.columns, [c \in DOMAIN frame.data |-> [d \in Range(frame.index) |-> BfillAt(frame.index, frame.data[c], Pos(frame.index, d))]])

\* Series - Series, elementwise; NaN where either operand is NaN.
Sub(a, b) == IF a # NaN /\ b # NaN THEN Num(a.v - b.v) ELSE NaN

\* --------------------------------------------------- download and alignment
\* What yf.download can hand back as full_data['Close']: one column per
\* ticker, rows in ascending date order, any cell possibly undefined.
RawFramesOver(dates) == UNION {{Frame(SortedSeq(S), Tickers, data) : data \in [Range(Tickers) -> [S -> {Num(p) : p \in Prices} \cup {NaN}]]} : S \in (SUBSET dates) \ {{}}}
RawFrames == RawFramesOver(Days)
EmptyDownload == Frame(<<>>, Tickers, [c \in Range(Tickers) |-> <<>>])

\* Lines 221-223 and 229-231: nothing downloaded, or the download raised.
DownloadFailed(full_data) == full_data = None \/ IsEmpty(full_data)

\* Lines 223, 231: what download_gold_training_data returns then.
NoDataResult_mut == EmptyDownload
NoDataResult == None

\* Lines 235-246: rename, sort, drop the all-empty columns, ffill, bfill.
Aligned(raw) == bfill(ffill(dropna_all(sort_index(rename(raw, tickers_to_download)))))

\* Lines 238-240: removed_cols = initial_cols - set(main_df.columns).
RemovedCols(raw) == Range(rename(raw, tickers_to_download).columns) \ Range(dropna_all(sort_index(rename(raw, tickers_to_download))).columns)

\* Lines 250-254: the basis column, when both sources are present.
WithBasis_mut(frame) == IF HasColumn(frame, GoldSpot) /\ HasColumn(frame, GoldFuture) THEN SetColumn(frame, GoldBasis, [d \in Range(frame.index) |-> Sub(frame.data[GoldFuture][d], frame.data[GoldSpot][d])]) ELSE frame
WithBasis(frame) == IF HasColumn(frame, GoldSpot) /\ HasColumn(frame, GoldFuture) THEN SetColumn(frame, GoldBasis, [d \in Range(frame.index) |-> Sub(frame.data[GoldSpot][d], frame.data[GoldFuture][d])]) ELSE frame

\* ------------------------------------------------- China 10Y yield source
\* The column of ak.bond_zh_us_rate the source reads, and another one.
BondColumn == "China_bond_yield_10y"
OtherBondColumn == "US_bond_yield_10y"

\* What ak.bond_zh_us_rate can hand back: at most MaxAux rows in ascending
\* date order, any cell of the China 10Y column possibly undefined, or a
\* table without that column (its other cells are never read).  None stands
\* for a raised exception.
AuxIndexes == {SortedSeq(S) : S \in {T \in SUBSET AuxDays : Cardinality(T) <= MaxAux}}
BondSources == UNION {{Frame(index, <<BondColumn>>, (BondColumn :> col)) : col \in [Range(index) -> {Num(y) : y \in Yields} \cup {NaN}]} \cup {Frame(index, <<OtherBondColumn>>, (OtherBondColumn :> [d \in Range(index) |-> NaN]))} : index \in AuxIndexes}

\* Lines 132-143: 365 daily rows ending today, all 2.5.
create_default_bond_data == Frame([i \in 1..DefaultPeriods |-> Today - DefaultPeriods + i], <<ChinaYield>>, (ChinaYield :> [d \in (Today - DefaultPeriods + 1)..Today |-> Num(DefaultYield)]))

\* DataFrame.dropna(subset=[name]): the rows whose cell in `name` is defined.
dropna_rows(frame, name) == LET keep == SelectSeq(frame.index, LAMBDA d : frame.data[name][d] # NaN) IN Frame(keep, frame.columns, [c \in Range(frame.columns) |-> [d \in Range(keep) |-> frame.data[c][d]]])

\* Lines 79-130: the fetched series, or the default data when the fetch
\* raised, came back empty, lacks the column or holds no defined value.
get_china_bond_yield(bond_data) == IF bond_data = None \/ IsEmpty(bond_data) \/ ~HasColumn(bond_data, BondColumn) THEN create_default_bond_data ELSE LET china_10y == dropna_rows(bond_data, BondColumn) IN IF IsEmpty(china_10y) THEN create_default_bond_data ELSE rename(china_10y, (BondColumn :> ChinaYield))

\* ----------------------------------------------------------- reconciliation
\* frame[(frame.index >= lo) & (frame.index <= hi)]
Clip(frame, lo, hi) == LET keep == SelectSeq(frame.index, LAMBDA d : lo <= d /\ d <= hi) IN Frame(keep, frame.columns, [c \in Range(frame.columns) |-> [d \in Range(keep) |-> frame.data[c][d]]])

\* The cell of `col` at the last label of the ascending `index` that is
\* <= d, NaN if there is none (the labels <= d are a prefix of the index).
AsOf(index, col, d) == LET n == Cardinality({i \in DOMAIN index : index[i] <= d}) IN IF n = 0 THEN NaN ELSE col[index[n]]

\* frame.reindex(target, method='ffill')
reindex_ffill_mut(frame, target) == Frame(target, frame.columns, [c \in Range(frame.columns) |-> [d \in Range(target) |-> IF d \in Range(frame.index) THEN frame.data[c][d] ELSE NaN]])
reindex_ffill(frame, target) == Frame(target, frame.columns, [c \in Range(frame.columns) |-> [d \in Range(target) |-> AsOf(frame.index, frame.data[c], d)]])

\* frame.resample('D').ffill(): one row per day from the first to the last
\* label (the index is ascending), each carrying the latest observation.
DailyRange(lo, hi) == [i \in 1..(hi - lo + 1) |-> lo + i - 1]
resample_D_ffill(frame) == IF Len(frame.index) = 0 THEN frame ELSE reindex_ffill(frame, DailyRange(frame.index[1], frame.index[Len(frame.index)]))

\* The constant column of lines 295, 300 and 309.
DefaultColumn_mut(frame) == [d \in Range(frame.index) |-> NaN]
DefaultColumn(frame) == [d \in Range(frame.index) |-> Num(DefaultYield)]

\* Line 268: the series clipped to the Panel's date range.
FirstClip(main, china) == Clip(china, Min(Range(main.index)), Max(Range(main.index)))

\* Lines 276-280: the series resampled to daily rows, then clipped.
SecondClip_mut(main, china) == Clip(china, Min(Range(main.index)), Max(Range(main.index)))
SecondClip(main, china) == Clip(resample_D_ffill(china), Min(Range(main.index)), Max(Range(main.index)))

\* Lines 287-288: the clipped series put on the Panel's index.
Merged(main, filtered) == SetColumn(main, ChinaYield, reindex_ffill(filtered, main.index).data[ChinaYield])

\* Lines 295, 300: the constant column.
WithDefault(main) == SetColumn(main, ChinaYield, DefaultColumn(main))

\* Lines 259-300: the Panel with the China 10Y column added, and the
\* warnings printed on the way (lines 274, 294, 299).
Reconciled(main, china) == IF china = None \/ IsEmpty(china) THEN [frame |-> WithDefault(main), warnings |-> {"warn_no_bond_data"}] ELSE IF ~IsEmpty(FirstClip(main, china)) THEN [frame |-> Merged(main, FirstClip(main, china)), warnings |-> {}] ELSE IF ~IsEmpty(SecondClip(main, china)) THEN [frame |-> Merged(main, SecondClip(main, china)), warnings |-> {"warn_resample"}] ELSE [frame |-> WithDefault(main), warnings |-> {"warn_resample", "warn_default"}]

\* Lines 303-309: the generic fill over every column, then the guard that
\* the China 10Y column exists.
FinalFilled_mut(frame) == IF HasColumn(frame, ChinaYield) THEN frame ELSE SetColumn(frame, ChinaYield, DefaultColumn(frame))
FinalFilled(frame) == LET filled == bfill(ffill(frame)) IN IF HasColumn(filled, ChinaYield) THEN filled ELSE SetColumn(filled, ChinaYield, DefaultColumn(filled))

\* ------------------------------------------------------ snapshot extraction
\* JSON null, and a key that is not in the mapping at all.
Null == [kind |-> "null"]
Absent == [kind |-> "absent"]

\* The columns of the two persisted indicator tables (the source names them
\* in Chinese) and the Snapshot field each one feeds.
BuffettFields == ("indicator_value" :> "buffett_indicator") @@ ("total_market_cap" :> "total_market_cap") @@ ("gdp" :> "GDP") @@ ("total_percentile" :> "total_percentile") @@ ("close_price" :> "close_price")
SpreadFields == ("spread_value" :> "spread") @@ ("five_year_ma" :> "ma_5y") @@ ("five_year_std" :> "std_5y") @@ ("plus_1_std" :> "+1 STD") @@ ("minus_1_std" :> "-1 STD") @@ ("plus_2_std" :> "+2 STD") @@ ("minus_2_std" :> "-2 STD") @@ ("csi300_index" :> "csi300_index")

\* Column names ending in '_pct_change' (line 339); none of the columns the
\* pipeline creates does.
EndsWithPctChange(name) == FALSE

\* frame.iloc[-1]: the last row in row order, as a mapping column -> cell.
LastRow(frame) == [c \in Range(frame.columns) |-> frame.data[c][frame.index[Len(frame.index)]]]

\* Lines 344-352 and 356-367: date of the last row, and per field
\* float(row[column]) if the column is in the row, else None.
Float(cell) == IF cell = NaN THEN NaN ELSE Num(cell.v)
Group_mut(table, fields) == [date |-> table.index[Len(table.index)], values |-> [f \in {g \in DOMAIN fields : HasColumn(table, fields[g])} |-> Float(LastRow(table)[fields[f]])]]
Group(table, fields) == [date |-> table.index[Len(table.index)], values |-> [f \in DOMAIN fields |-> IF HasColumn(table, fields[f]) THEN Float(LastRow(table)[fields[f]]) ELSE Null]]

\* Lines 328-369.
prepare_mut(frame, buffett, spread) == IF frame = None \/ IsEmpty(frame) \/ buffett = None \/ spread = None THEN None ELSE [latest_date |-> frame.index[Len(frame.index)], latest_values |-> [k \in {c \in Range(frame.columns) : ~EndsWithPctChange(c)} |-> LastRow(frame)[k]], buffett_indicator |-> IF ~IsEmpty(buffett) THEN Group(buffett, BuffettFields) ELSE Absent, equity_bond_spread |-> IF ~IsEmpty(spread) THEN Group(spread, SpreadFields) ELSE Absent]
prepare_nested_mut(frame, buffett, spread) == IF frame = None \/ IsEmpty(frame) THEN None ELSE [latest_date |-> frame.index[Len(frame.index)], latest_values |-> [k \in {c \in Range(frame.columns) : ~EndsWithPctChange(c)} |-> LastRow(frame)[k]], buffett_indicator |-> IF buffett # None /\ ~IsEmpty(buffett) THEN Group(buffett, BuffettFields) ELSE Absent, equity_bond_spread |-> IF buffett # None /\ spread # None /\ ~IsEmpty(spread) THEN Group(spread, SpreadFields) ELSE Absent]
prepare_market_data_for_analysis(frame, buffett, spread) == IF frame = None \/ IsEmpty(frame) THEN None ELSE [latest_date |-> frame.index[Len(frame.index)], latest_values |-> [k \in {c \in Range(frame.columns) : ~EndsWithPctChange(c)} |-> LastRow(frame)[k]], buffett_indicator |-> IF buffett # None /\ ~IsEmpty(buffett) THEN Group(buffett, BuffettFields) ELSE Absent, equity_bond_spread |-> IF spread # None /\ ~IsEmpty(spread) THEN Group(spread, SpreadFields) ELSE Absent]

\* What the two loaders (lines 47-76) can return: None when the file is
\* missing or unreadable, else the table read from it.
RECURSIVE SetToSeq(_)
SetToSeq(S) == IF S = {} THEN <<>> ELSE LET x == CHOOSE y \in S : TRUE IN <<x>> \o SetToSeq(S \ {x})
FullTable(fields) == LET cols == [i \in 1..Cardinality(DOMAIN fields) |-> fields[SetToSeq(DOMAIN fields)[i]]] IN Frame(<<1, 2>>, cols, [c \in Range(cols) |-> [d \in {1, 2} |-> Num(d)]])
EmptyTable(fields) == Frame(<<>>, <<>>, <<>>)
BuffettTables == {FullTable(BuffettFields), EmptyTable(BuffettFields)}
SpreadTables == {FullTable(SpreadFields), EmptyTable(SpreadFields)}

\* A persisted file: missing, present but unreadable, or holding a table.
NoFile == [kind |-> "no_file"]
Unreadable == [kind |-> "unreadable"]

\* Lines 47-60 and 63-76: no table for a missing file (the else branch) or
\* an unreadable one (the except branch), else the table as stored:
\* read_csv keeps the rows in file order.
load_buffett_indicator_data(file) == IF file = NoFile \/ file = Unreadable THEN None ELSE file
load_equity_bond_spread_data(file) == IF file = NoFile \/ file = Unreadable THEN None ELSE file
BuffettFiles == {NoFile, Unreadable} \cup BuffettTables
SpreadFiles == {NoFile, Unreadable} \cup SpreadTables

\* The contents a persisted table can have: one row or two, two in
\* ascending or descending date order; every column, or one column missing,
\* or one cell of the last row empty.  A cell holds the day number of its row.
TableWith(fields, index, missing, undefined) == LET cols == SelectSeq([i \in 1..Cardinality(DOMAIN fields) |-> fields[SetToSeq(DOMAIN fields)[i]]], LAMBDA c : c \notin missing) IN Frame(index, cols, [c \in Range(cols) |-> [d \in Range(index) |-> IF c \in undefined /\ d = index[Len(index)] THEN NaN ELSE Num(d)]])
TableIndexes == {<<1>>, <<1, 2>>, <<2, 1>>}
BuffettContents == {TableWith(BuffettFields, ix, mu[1], mu[2]) : ix \in TableIndexes, mu \in {<<{}, {}>>, <<{"GDP"}, {}>>, <<{}, {"total_percentile"}>>}}
SpreadContents == {TableWith(SpreadFields, ix, mu[1], mu[2]) : ix \in TableIndexes, mu \in {<<{}, {}>>, <<{"csi300_index"}, {}>>, <<{}, {"std_5y"}>>}}
AnyBuffettFiles == BuffettFiles \cup BuffettContents
AnySpreadFiles == SpreadFiles \cup SpreadContents

\* ------------------------------------------------- trailing-month table
\* Day numbers as calendar dates: day 1 is 1 January of a common year.
MonthLengths == <<31, 28, 31, 30, 31, 30, 31, 31, 30, 31, 30, 31>>
RECURSIVE DaysBefore(_)
DaysBefore(m) == IF m = 1 THEN 0 ELSE DaysBefore(m - 1) + MonthLengths[m - 1]
MonthOf(d) == CHOOSE m \in 1..12 : DaysBefore(m) < d /\ d <= DaysBefore(m) + MonthLengths[m]
DayOf(d) == d - DaysBefore(MonthOf(d))

\* d - pd.DateOffset(months=1) (line 522): the same day of the previous
\* month, or that month's last day if it is shorter; from January, the same
\* day of the previous December.
MonthBefore_mut(d) == d - 30
MonthBefore(d) == IF MonthOf(d) = 1 THEN d - 31 ELSE DaysBefore(MonthOf(d) - 1) + (IF DayOf(d) < MonthLengths[MonthOf(d) - 1] THEN DayOf(d) ELSE MonthLengths[MonthOf(d) - 1])

\* Line 532.
priority_columns == <<"China_10Y_Treasury_Yield", "US_10Y_Treasury_Yield", "Shanghai_Composite_Index", "CSI_300_Index", "Shenzhen_Component_Index", "GOLD_spot_price", "OIL_price">>

Reverse(seq) == [i \in 1..Len(seq) |-> seq[Len(seq) + 1 - i]]

\* list.remove(x): the list without its first x.
Remove(list, x) == [i \in 1..(Len(list) - 1) |-> IF i < Pos(list, x) THEN list[i] ELSE list[i + 1]]

\* Lines 536-543: each priority column the Panel has is moved to the front,
\* in priority order; the columns left over follow.
RECURSIVE PriorityLoop(_, _, _)
PriorityLoop(i, ordered_columns, display_columns) == IF i > Len(priority_columns) THEN ordered_columns \o display_columns ELSE IF priority_columns[i] \in Range(display_columns) THEN PriorityLoop(i + 1, Append(ordered_columns, priority_columns[i]), Remove(display_columns, priority_columns[i])) ELSE PriorityLoop(i + 1, ordered_columns, display_columns)
ordered_columns(frame) == PriorityLoop(1, <<>>, frame.columns)

\* sort_index(ascending=False) (line 527).
sort_index_descending(frame) == Frame(Reverse(SortedSeq(Range(frame.index))), frame.columns, frame.data)

\* Lines 520-527: the rows from one month before the last row on, newest
\* first (a copy: the Panel keeps its rows and their order).
FromDate(frame, lo) == LET keep == SelectSeq(frame.index, LAMBDA d : d >= lo) IN Frame(keep, frame.columns, [c \in Range(frame.columns) |-> [d \in Range(keep) |-> frame.data[c][d]]])
last_month_df(frame) == sort_index_descending(FromDate(frame, MonthBefore(frame.index[Len(frame.index)])))

\* Lines 508-557: the table written under the report text: the trailing
\* rows with the columns in display order; no table for an empty Panel.
save_market_analysis(frame) == IF IsEmpty(frame) THEN None ELSE LET rows == last_month_df(frame) valid_columns == SelectSeq(ordered_columns(frame), LAMBDA c : c \in Range(rows.columns)) IN IF IsEmpty(rows) \/ Len(ordered_columns(frame)) = 0 THEN None ELSE Frame(rows.index, valid_columns, [c \in Range(valid_columns) |-> rows.data[c]])

\* ------------------------------------------------------------ report text
Str(text) == [kind |-> "str", text |-> text]

\* What generate_market_summary (lines 371-471) can return: the model's
\* text, an empty text, the message for a missing API key (line 374), or one
\* of the two messages that start with the failure marker (lines 466, 471).
Analyses == {Str("report"), Str(""), Str("no_api_key"), Str("failed_bad_response"), Str("failed_exception")}

\* `analysis` is truthy (line 606).
Truthy(analysis) == analysis.text # ""

\* The marker of line 606 occurs in the analysis.
HasFailureMarker(analysis) == analysis.text \in {"failed_bad_response", "failed_exception"}

\* ------------------------------------------------- rolling statistics
\* (plot_equity_bond_spread of the spread script.)  Observations are integers;
\* a mean is the exact fraction Ratio(n, d) in lowest terms; a standard
\* deviation is the exact root of a fraction: a Ratio when the fraction is a
\* square, Root(r) otherwise; NaN where pandas gives NaN.
RECURSIVE GCD(_, _)
GCD(a, b) == IF b = 0 THEN a ELSE GCD(b, a % b)
Abs(x) == IF x < 0 THEN 0 - x ELSE x
Ratio(n, d) == LET g == GCD(Abs(n), d) IN [kind |-> "ratio", n |-> n \div g, d |-> d \div g]
Root(r) == [kind |-> "root", of |-> r]
IsSquare(n) == \E k \in 0..n : k * k = n
Isqrt(n) == CHOOSE k \in 0..n : k * k = n
Sqrt(r) == IF r.n >= 0 /\ IsSquare(r.n) /\ IsSquare(r.d) THEN Ratio(Isqrt(r.n), Isqrt(r.d)) ELSE Root(r)

\* window = 5 * 252 (line 57) and min_periods=1 (lines 61-62).
TradingYears == 5
TradingDaysPerYear == 252
window == TradingYears * TradingDaysPerYear
min_periods == 1

\* The rolling aggregation keeps running totals: entering the window adds
\* an observation, leaving it (once more than w rows were seen) removes one.
RECURSIVE RollSum(_, _, _)
RollSum_mut(v, w, i) == IF i = 0 THEN 0 ELSE RollSum(v, w, i - 1) + v[i]
RollSum(v, w, i) == IF i = 0 THEN 0 ELSE RollSum(v, w, i - 1) + v[i] - (IF i > w THEN v[i - w] ELSE 0)
RECURSIVE RollSumSq(_, _, _)
RollSumSq(v, w, i) == IF i = 0 THEN 0 ELSE RollSumSq(v, w, i - 1) + v[i] * v[i] - (IF i > w THEN v[i - w] * v[i - w] ELSE 0)
RECURSIVE RollCount(_, _, _)
RollCount(v, w, i) == IF i = 0 THEN 0 ELSE RollCount(v, w, i - 1) + 1 - (IF i > w THEN 1 ELSE 0)

\* Series.rolling(window=w, min_periods=minp).mean()
rolling_mean(v, w, minp) == [i \in DOMAIN v |-> IF RollCount(v, w, i) >= minp THEN Ratio(RollSum(v, w, i), RollCount(v, w, i)) ELSE NaN]

\* Series.rolling(window=w, min_periods=minp).std(): the sample standard
\* deviation (ddof = 1), NaN for a window holding a single observation.
rolling_std(v, w, minp) == [i \in DOMAIN v |-> LET n == RollCount(v, w, i) IN IF n >= minp /\ n > 1 THEN Sqrt(Ratio(n * RollSumSq(v, w, i) - RollSum(v, w, i) * RollSum(v, w, i), n * (n - 1))) ELSE NaN]

\* mean + k * std, elementwise (lines 63-66); NaN wherever either is NaN.
Offset_mut(m, k, sd) == IF m = NaN \/ sd = NaN THEN NaN ELSE m
Offset(m, k, sd) == IF m = NaN \/ sd = NaN THEN NaN ELSE IF sd.kind = "ratio" THEN Ratio(m.n * sd.d + k * sd.n * m.d, m.d * sd.d) ELSE [kind |-> "surd", mean |-> m, k |-> k, std |-> sd]
Band(mean_col, k, std_col) == [i \in DOMAIN mean_col |-> Offset(mean_col[i], k, std_col[i])]

\* Lines 61-66: the six derived columns beside the spread column.
WithIndicators(v) == LET m == rolling_mean(v, window, min_periods) sd == rolling_std(v, window, min_periods) IN [spread |-> v, ma_5y |-> m, std_5y |-> sd, plus_1_std |-> Band(m, 1, sd), minus_1_std |-> Band(m, 0 - 1, sd), plus_2_std |-> Band(m, 2, sd), minus_2_std |-> Band(m, 0 - 2, sd)]

\* What ak.stock_ebs_lg() can publish for one more day.
SpreadValues == {1, 2, 3}

VARIABLES pc, data, main_df, removed_cols, china_bond_data, df, buffett_df, spread_df, market_data, analysis, files, log, markdown_table, stock_ebs_lg_df, earlier_run

vars == <<pc, data, main_df, removed_cols, china_bond_data, df, buffett_df, spread_df, market_data, analysis, files, log, markdown_table, stock_ebs_lg_df, earlier_run>>

\* The frame of plot_equity_bond_spread, and the frame its previous run
\* computed (kept for comparison only).
spread_vars == <<stock_ebs_lg_df, earlier_run>>

\* The locals of download_gold_training_data.
download_vars == <<data, main_df, removed_cols, china_bond_data>>

\* The locals of run_market_analysis after the download returned.
run_vars == <<buffett_df, spread_df, market_data, analysis>>

\* pc: the position in run_market_analysis and, inside its call at line
\* 569, in download_gold_training_data.  files: the output files written.
\* log: the warnings and errors printed or logged so far.
Init ==
    /\ pc = "start"
    /\ data = None
    /\ main_df = None
    /\ removed_cols = {}
    /\ china_bond_data = None
    /\ df = None
    /\ buffett_df = None
    /\ spread_df = None
    /\ market_data = None
    /\ analysis = None
    /\ files = {}
    /\ log = {}
    /\ markdown_table = None
    /\ stock_ebs_lg_df = None
    /\ earlier_run = None

\* Lines 209-231: the download.  An exception or an empty result returns
\* None; otherwise the 'Close' prices are taken.
DownloadFrom(frames) ==
    /\ pc = "start"
    /\ \E full_data \in frames \cup {EmptyDownload, None} :
         IF DownloadFailed(full_data)
         THEN /\ df' = NoDataResult
              /\ log' = log \cup {IF full_data = None THEN "err_download_raised" ELSE "err_no_data"}
              /\ pc' = "returned"
              /\ UNCHANGED <<download_vars, run_vars, files>>
         ELSE /\ data' = full_data
              /\ pc' = "clean"
              /\ UNCHANGED <<main_df, removed_cols, china_bond_data, df, run_vars, files, log>>
    /\ UNCHANGED <<markdown_table, spread_vars>>

Download == DownloadFrom(RawFrames)

\* Lines 235-246: the alignment step.
Clean ==
    /\ pc = "clean"
    /\ main_df' = Aligned(data)
    /\ removed_cols' = RemovedCols(data)
    /\ log' = log \cup (IF RemovedCols(data) # {} THEN {"warn_removed_cols"} ELSE {})
    /\ pc' = "basis"
    /\ UNCHANGED <<data, china_bond_data, df, run_vars, files>>
    /\ UNCHANGED <<markdown_table, spread_vars>>

\* Lines 248-254: the basis column.  `data` is not read after line 235 and
\* is forgotten here.
Basis ==
    /\ pc = "basis"
    /\ main_df' = WithBasis(main_df)
    /\ log' = log \cup (IF HasColumn(WithBasis(main_df), GoldBasis) THEN {} ELSE {"warn_no_basis"})
    /\ data' = None
    /\ pc' = "bond"
    /\ UNCHANGED <<removed_cols, china_bond_data, df, run_vars, files>>
    /\ UNCHANGED <<markdown_table, spread_vars>>

\* Line 258: the auxiliary series, fetched or defaulted.
FetchBondFrom(sources) ==
    /\ pc = "bond"
    /\ \E bond_data \in sources :
         china_bond_data' = get_china_bond_yield(bond_data)
    /\ pc' = "reconcile"
    /\ UNCHANGED <<data, main_df, removed_cols, df, run_vars, files, log>>
    /\ UNCHANGED <<markdown_table, spread_vars>>

FetchBond == FetchBondFrom(BondSources \cup {None})

\* Lines 259-300: the reconciliation of the auxiliary series.
Reconcile ==
    /\ pc = "reconcile"
    /\ \E result \in {Reconciled(main_df, china_bond_data)} :
         /\ main_df' = result.frame
         /\ log' = log \cup result.warnings
    /\ pc' = "fill"
    /\ UNCHANGED <<data, removed_cols, china_bond_data, df, run_vars, files>>
    /\ UNCHANGED <<markdown_table, spread_vars>>

\* Lines 302-309: the final fill.
FinalFill ==
    /\ pc = "fill"
    /\ main_df' = FinalFilled(main_df)
    /\ pc' = "save"
    /\ UNCHANGED <<data, removed_cols, china_bond_data, df, run_vars, files, log>>
    /\ UNCHANGED <<markdown_table, spread_vars>>

\* Lines 313-326: the CSV is written and the Panel returned, or the write
\* raises and None is returned.  The locals end with the call; the set of
\* removed columns stays on the console.
SaveCsv ==
    /\ pc = "save"
    /\ \/ /\ files' = files \cup {"panel_csv"}
          /\ df' = main_df
          /\ UNCHANGED log
       \/ /\ df' = None
          /\ log' = log \cup {"err_save_csv"}
          /\ UNCHANGED files
    /\ main_df' = None
    /\ china_bond_data' = None
    /\ pc' = "returned"
    /\ UNCHANGED <<data, removed_cols, run_vars>>
    /\ UNCHANGED <<markdown_table, spread_vars>>

\* Lines 571-573: no Panel, the run ends.
AbortNoPanel ==
    /\ pc = "returned"
    /\ df = None
    /\ log' = log \cup {"err_download_failed"}
    /\ pc' = "done"
    /\ UNCHANGED <<download_vars, df, run_vars, files>>
    /\ UNCHANGED <<markdown_table, spread_vars>>

\* Lines 575-585: the two persisted indicator tables are loaded and the
\* Snapshot is made of them and the Panel; without a Snapshot the run ends.
PrepareFrom(buffett_files, spread_files) ==
    /\ pc = "returned"
    /\ df # None
    /\ \E buffett \in {load_buffett_indicator_data(f) : f \in buffett_files}, spread \in {load_equity_bond_spread_data(f) : f \in spread_files} :
         /\ market_data' = prepare_market_data_for_analysis(df, buffett, spread)
         /\ IF market_data' = None
            THEN /\ pc' = "done"
                 /\ log' = log \cup {"err_prepare_failed"}
                 /\ df' = None /\ buffett_df' = None /\ spread_df' = None
            ELSE /\ pc' = "snapshot"
                 /\ buffett_df' = buffett /\ spread_df' = spread
                 /\ UNCHANGED <<df, log>>
    /\ UNCHANGED <<download_vars, analysis, files>>
    /\ UNCHANGED <<markdown_table, spread_vars>>

\* The run on the table shapes that decide its control flow.
Prepare == PrepareFrom(BuffettFiles, SpreadFiles)

\* Lines 587-601: the two Snapshot files; a failed write is logged and the
\* run goes on.  The tables are not read afterwards.
SaveSnapshot ==
    /\ pc = "snapshot"
    /\ \/ files' = files \cup {"snapshot_latest_json", "snapshot_dated_json"} /\ UNCHANGED log
       \/ files' = files \cup {"snapshot_latest_json"} /\ log' = log \cup {"err_save_snapshot"}
       \/ UNCHANGED files /\ log' = log \cup {"err_save_snapshot"}
    /\ buffett_df' = None
    /\ spread_df' = None
    /\ pc' = "summary"
    /\ UNCHANGED <<download_vars, df, market_data, analysis>>
    /\ UNCHANGED <<markdown_table, spread_vars>>

\* Lines 603-604: the report text.  The Snapshot is not read afterwards.
GenerateSummary ==
    /\ pc = "summary"
    /\ analysis' \in Analyses
    /\ market_data' = None
    /\ pc' = "report"
    /\ UNCHANGED <<download_vars, df, buffett_df, spread_df, files, log>>
    /\ UNCHANGED <<markdown_table, spread_vars>>

\* Lines 606-620: the two report files, each write caught on failure; the
\* dated report ends with the trailing-month table of save_market_analysis.
SaveReports ==
    /\ pc = "report"
    /\ IF Truthy(analysis) /\ ~HasFailureMarker(analysis)
       THEN \E written \in SUBSET {"analysis_json", "report_md"} :
              /\ files' = files \cup written
              /\ markdown_table' = IF "report_md" \in written THEN save_market_analysis(df) ELSE None
              /\ log' = log \cup (IF written = {"analysis_json", "report_md"} THEN {} ELSE {"err_save_report"})
       ELSE /\ log' = log \cup {"err_no_report"}
            /\ UNCHANGED <<files, markdown_table>>
    /\ pc' = "done"
    /\ UNCHANGED <<download_vars, df, run_vars>>
    /\ UNCHANGED spread_vars

Next == Download \/ Clean \/ Basis \/ FetchBond \/ Reconcile \/ FinalFill \/ SaveCsv \/ AbortNoPanel \/ Prepare \/ SaveSnapshot \/ GenerateSummary \/ SaveReports

Spec == Init /\ [][Next]_vars

\* ------------------------------------------------- snapshot extraction runs
\* The same run, followed up to the Snapshot files, over every content the
\* two persisted tables can have; the auxiliary yield source either fails
\* or returns a single observation.
BondSamples == {None, Frame(<<1>>, <<BondColumn>>, (BondColumn :> [d \in {1} |-> Num(Min(Yields))]))}
FetchBondSample == FetchBondFrom(BondSamples)
PrepareAny == PrepareFrom(AnyBuffettFiles, AnySpreadFiles)

SnapshotNext == Download \/ Clean \/ Basis \/ FetchBondSample \/ Reconcile \/ FinalFill \/ SaveCsv \/ AbortNoPanel \/ PrepareAny \/ SaveSnapshot

SnapshotSpec == Init /\ [][SnapshotNext]_vars

\* ---------------------------------------------------------- report runs
\* The same run on Panels whose dates lie a month apart: 27 and 28 February
\* and 31 March.
ReportDays == {58, 59, 90}
DownloadSparse == DownloadFrom(RawFramesOver(ReportDays))

ReportNext == DownloadSparse \/ Clean \/ Basis \/ FetchBondSample \/ Reconcile \/ FinalFill \/ SaveCsv \/ AbortNoPanel \/ Prepare \/ SaveSnapshot \/ GenerateSummary \/ SaveReports

ReportSpec == Init /\ [][ReportNext]_vars

\* ------------------------------------------------ the spread indicator script
\* plot_equity_bond_spread, run once per day on the series published so
\* far.  pipeline_vars are the variables of run_market_analysis, which this
\* script never touches.
pipeline_vars == <<data, main_df, removed_cols, china_bond_data, df, buffett_df, spread_df, market_data, analysis, files, markdown_table>>

SpreadInit ==
    /\ pc = "ebs_fetch"
    /\ data = None
    /\ main_df = None
    /\ removed_cols = {}
    /\ china_bond_data = None
    /\ df = None
    /\ buffett_df = None
    /\ spread_df = None
    /\ market_data = None
    /\ analysis = None
    /\ files = {}
    /\ log = {}
    /\ markdown_table = None
    /\ stock_ebs_lg_df = None
    /\ earlier_run = None

\* The series ak.stock_ebs_lg() had published at the previous run.
Published == IF earlier_run = None THEN <<>> ELSE earlier_run.spread

\* Lines 45-54: the series is fetched (one more observation than at the
\* previous run) and indexed by date; an exception ends the run (line 127).
FetchSpread ==
    /\ pc = "ebs_fetch"
    /\ Len(Published) < MaxObs
    /\ \/ /\ \E v \in SpreadValues : stock_ebs_lg_df' = [spread |-> Published \o <<v>>]
          /\ pc' = "ebs_compute"
          /\ UNCHANGED log
       \/ /\ pc' = "ebs_done"
          /\ log' = log \cup {"err_spread_script"}
          /\ UNCHANGED stock_ebs_lg_df
    /\ UNCHANGED <<pipeline_vars, earlier_run>>

\* Lines 56-67: the rolling mean, the rolling deviation and the four bands.
ComputeIndicators ==
    /\ pc = "ebs_compute"
    /\ stock_ebs_lg_df' = WithIndicators(stock_ebs_lg_df.spread)
    /\ pc' = "ebs_plot"
    /\ UNCHANGED <<pipeline_vars, earlier_run, log>>

\* Lines 69-128: the chart is drawn and shown; an exception is printed.
ShowChart ==
    /\ pc = "ebs_plot"
    /\ \/ UNCHANGED log
       \/ log' = log \cup {"err_spread_script"}
    /\ pc' = "ebs_done"
    /\ UNCHANGED <<pipeline_vars, spread_vars>>

\* Lines 130-131: the script is started again on a later day.
RunAgain ==
    /\ pc = "ebs_done"
    /\ earlier_run' = IF stock_ebs_lg_df = None THEN earlier_run ELSE stock_ebs_lg_df
    /\ stock_ebs_lg_df' = None
    /\ log' = {}
    /\ pc' = "ebs_fetch"
    /\ UNCHANGED pipeline_vars

SpreadNext == FetchSpread \/ ComputeIndicators \/ ShowChart \/ RunAgain

SpreadSpec == SpreadInit /\ [][SpreadNext]_vars

\* ================================================================ properties
Cols(frame) == Range(frame.columns)
Dates(frame) == Range(frame.index)

\* The downloaded column a Panel column was renamed from.
TickerOf(c) == CHOOSE t \in DOMAIN tickers_to_download : tickers_to_download[t] = c

\* The raw cell behind Panel column c on date d (while `data` is held).
RawCell(c, d) == data.data[TickerOf(c)][d]
DefinedBefore(c, d) == {e \in Dates(data) : e < d /\ RawCell(c, e) # NaN}
DefinedAfter(c, d) == {e \in Dates(data) : e > d /\ RawCell(c, e) # NaN}

\* The Panel under construction once the basis step has run, and the Panel
\* download_gold_training_data returned.
Panels == (IF pc \in {"bond", "reconcile", "fill", "save"} THEN {main_df} ELSE {}) \cup (IF pc = "returned" /\ df # None THEN {df} ELSE {})

\* The download handed back data (neither empty nor an exception).
DownloadedData == log \cap {"err_no_data", "err_download_raised"} = {}

\* C1: after the alignment step (rename, sort, drop the all-empty columns,
\* forward-fill, back-fill) every surviving column has a defined value on
\* every date of the Panel index, the index is the downloaded one, and a
\* column survives whenever some raw column holds a defined value.
C1_AlignedPanelIsFull == pc = "basis" => /\ Dates(main_df) = Dates(data) /\ (\A c \in Cols(main_df) : \A d \in Dates(main_df) : main_df.data[c][d] # NaN) /\ ((\E t \in Range(data.columns) : \E d \in Dates(data) : data.data[t][d] # NaN) => Cols(main_df) # {})

\* A column undefined on the first and on the last of three dates survived.
C1_Witness == pc = "basis" /\ data.index = <<1, 2, 3>> /\ \E c \in Cols(main_df) : RawCell(c, 1) = NaN /\ RawCell(c, 2) # NaN /\ RawCell(c, 3) = NaN

\* C2: a raw column undefined on every date is absent from the Panel and is
\* in the reported set of removed columns; a column with a defined value is
\* never removed; no column of any Panel, up to the one returned, is
\* entirely empty.
C2_EmptyColumnsDropped == /\ (pc = "basis" => \A t \in Range(data.columns) : IF \A d \in Dates(data) : data.data[t][d] = NaN THEN tickers_to_download[t] \in removed_cols \ Cols(main_df) ELSE tickers_to_download[t] \in Cols(main_df) \ removed_cols) /\ (pc = "basis" => ("warn_removed_cols" \in log <=> removed_cols # {})) /\ (\A panel \in Panels \cup (IF pc = "basis" THEN {main_df} ELSE {}) : /\ removed_cols \cap Cols(panel) = {} /\ ({GoldSpot, GoldFuture} \ removed_cols) \subseteq Cols(panel) /\ \A c \in Cols(panel) : \E d \in Dates(panel) : panel.data[c][d] # NaN)

\* One column was removed, the other (with an undefined cell) survived, and
\* the Panel was returned.
C2_Witness == pc = "returned" /\ df # None /\ removed_cols = {GoldFuture} /\ HasColumn(df, GoldSpot) /\ ~HasColumn(df, GoldFuture) /\ Len(df.index) = 3

\* C3: the fill step changes only undefined cells: a defined cell keeps its
\* value; an undefined cell with an earlier defined cell takes the value of
\* the most recent one; an undefined cell with none takes the value of the
\* next defined cell.
C3_FillSemantics == pc = "basis" => \A c \in Cols(main_df) : \A d \in Dates(data) : main_df.data[c][d] = (IF RawCell(c, d) # NaN THEN RawCell(c, d) ELSE IF DefinedBefore(c, d) # {} THEN RawCell(c, Max(DefinedBefore(c, d))) ELSE RawCell(c, Min(DefinedAfter(c, d))))

\* A gap between two defined cells of different value, filled from the
\* earlier one, beside a column whose first cell is undefined.
C3_Witness == pc = "basis" /\ data.index = <<1, 2, 3>> /\ (\E c \in Cols(main_df) : RawCell(c, 1) = Num(1) /\ RawCell(c, 2) = NaN /\ RawCell(c, 3) = Num(2) /\ main_df.data[c][2] = Num(1)) /\ (\E c \in Cols(main_df) : RawCell(c, 1) = NaN /\ RawCell(c, 2) = Num(2) /\ main_df.data[c][1] = Num(2))

\* C4: when the download is empty, download_gold_training_data returns no
\* Panel and run_market_analysis stops with no output file written and no
\* Snapshot made.
C4_NoDataWritesNothing == "err_no_data" \in log => /\ df = None /\ files = {} /\ market_data = None /\ analysis = None /\ pc \in {"returned", "done"}

\* The run ended after an empty download.
C4_Witness == pc = "done" /\ "err_no_data" \in log /\ "err_download_failed" \in log

C6_Basis == /\ (\A panel \in Panels : /\ (HasColumn(panel, GoldBasis) <=> HasColumn(panel, GoldSpot) /\ HasColumn(panel, GoldFuture)) /\ (HasColumn(panel, GoldBasis) <=> removed_cols \cap {GoldSpot, GoldFuture} = {}) /\ (HasColumn(panel, GoldBasis) <=> "warn_no_basis" \notin log) /\ (HasColumn(panel, GoldBasis) => \A d \in Dates(panel) : /\ panel.data[GoldSpot][d] # NaN /\ panel.data[GoldFuture][d] # NaN /\ panel.data[GoldBasis][d] = Num(panel.data[GoldSpot][d].v - panel.data[GoldFuture][d].v))) /\ (pc = "returned" /\ "warn_no_basis" \in log /\ "err_save_csv" \notin log => df # None)

\* A returned Panel whose basis is 1 on one date and -1 on another.
C6_Witness == pc = "returned" /\ df # None /\ HasColumn(df, GoldBasis) /\ (\E d \in Dates(df) : df.data[GoldBasis][d] = Num(1)) /\ (\E d \in Dates(df) : df.data[GoldBasis][d] = Num(0 - 1))

\* The Panel's date range and the auxiliary series, while it is held.
PanelLo == Min(Dates(main_df))
PanelHi == Max(Dates(main_df))
AuxLo == china_bond_data.index[1]
AuxHi == china_bond_data.index[Len(china_bond_data.index)]
InRange == LET lo == PanelLo hi == PanelHi IN {e \in Dates(china_bond_data) : lo <= e /\ e <= hi}
Overlap == AuxLo <= PanelHi /\ PanelLo <= AuxHi
AuxValue(e) == china_bond_data.data[ChinaYield][e]
LatestAuxValue(d) == AuxValue(Max({e \in Dates(china_bond_data) : e <= d}))
ChinaCell(d) == main_df.data[ChinaYield][d]
RealAux == \A e \in Dates(china_bond_data) : AuxValue(e) # Num(DefaultYield)

\* C7: the three attempts are made in order and the first non-empty one
\* wins: the clip; only if it is empty the daily resample, clipped; only if
\* that is empty too the constant 2.5 on every Panel date.  A series dated
\* wholly after the Panel's last date gives 2.5 everywhere.
C7_ThreeAttempts == /\ (pc = "fill" => LET inrange == InRange overlap == Overlap IN /\ ("warn_resample" \in log <=> inrange = {}) /\ ("warn_default" \in log <=> inrange = {} /\ ~overlap) /\ (inrange # {} => \A d \in Dates(main_df) : ChinaCell(d) = IF \E e \in inrange : e <= d THEN LatestAuxValue(d) ELSE NaN) /\ (inrange = {} /\ overlap => \A d \in Dates(main_df) : ChinaCell(d) = LatestAuxValue(d)) /\ (inrange = {} /\ ~overlap => \A d \in Dates(main_df) : ChinaCell(d) = Num(DefaultYield))) /\ (pc \in {"fill", "save"} /\ AuxLo > PanelHi => \A d \in Dates(main_df) : ChinaCell(d) = Num(DefaultYield))

\* All three attempts were made for a fetched series dated after the Panel.
C7_Witness == pc = "fill" /\ RealAux /\ AuxLo > PanelHi /\ Len(main_df.index) >= 2 /\ {"warn_resample", "warn_default"} \subseteq log /\ \A d \in Dates(main_df) : ChinaCell(d) = Num(DefaultYield)

\* C8: with an observation inside the Panel's range, the column equals, on
\* every Panel date at or after the first such observation, the value of
\* the latest observation dated at or before it.
C8_CarriesLatestObservation == pc \in {"fill", "save"} => LET inrange == InRange IN inrange # {} => LET first == Min(inrange) IN \A d \in Dates(main_df) : d >= first => ChinaCell(d) = LatestAuxValue(d)

\* A Panel date the series does not contain carries the later of two
\* different observations, the later one dated between two Panel dates.
C8_Witness == pc = "fill" /\ main_df.index = <<1, 3>> /\ china_bond_data.index = <<1, 2>> /\ AuxValue(1) = Num(20) /\ AuxValue(2) = Num(30) /\ ChinaCell(3) = Num(30)

\* C9 as stated: in the returned Panel the column is undefined on every
\* Panel date before the auxiliary series' first observation.
C9_LeadingCellsUndefined == pc = "save" /\ InRange # {} /\ AuxLo > PanelLo => \A d \in Dates(main_df) : d < AuxLo => ChinaCell(d) = NaN

\* C9, amended: the column is undefined on the Panel dates before the first
\* observation inside the Panel's range only until the final fill of lines
\* 303-304; in the returned Panel each of them carries the value of the
\* first Panel date at or after that observation, i.e. the latest
\* observation dated at or before that Panel date.
C9_LeadingCellsBackfilled == pc \in {"fill", "save"} => LET inrange == InRange IN inrange # {} => LET first == Min(inrange) IN \A d \in Dates(main_df) : d < first => ChinaCell(d) = IF pc = "fill" THEN NaN ELSE LatestAuxValue(Min({p \in Dates(main_df) : p >= first}))

\* A fetched series that starts after the Panel's first date, back-filled.
C9_Witness == pc = "save" /\ RealAux /\ InRange # {} /\ AuxLo > PanelLo /\ AuxHi < PanelHi /\ ChinaCell(PanelLo) = AuxValue(AuxLo) /\ Len(main_df.index) = 3

\* C10: the Panel after the final fill, and the Panel returned, hold the
\* China 10Y column on exactly the Panel's index, defined at the last date,
\* and the Snapshot reads a defined value for it at the Panel's last date,
\* whichever path the reconciliation took.
C10_ChinaYieldAlwaysDefined == /\ (\A panel \in (IF pc = "save" THEN {main_df} ELSE {}) \cup (IF pc = "returned" /\ df # None THEN {df} ELSE {}) : /\ HasColumn(panel, ChinaYield) /\ DOMAIN panel.data[ChinaYield] = Dates(panel) /\ panel.data[ChinaYield][panel.index[Len(panel.index)]] # NaN) /\ (market_data # None => /\ ChinaYield \in DOMAIN market_data.latest_values /\ market_data.latest_values[ChinaYield].kind = "num" /\ market_data.latest_date = df.index[Len(df.index)])

\* A Snapshot reading the constant default after clip and resample failed.
C10_Witness == pc = "snapshot" /\ "warn_default" \in log /\ market_data.latest_values[ChinaYield] = Num(DefaultYield)

\* ---------------------------------------------------- rolling properties
\* The frame holds its derived columns.
Computed == pc \in {"ebs_plot", "ebs_done"} /\ stock_ebs_lg_df # None
Obs == stock_ebs_lg_df.spread

\* The arithmetic mean of v[lo..hi].
RECURSIVE SumOver(_, _, _)
SumOver(v, lo, hi) == IF lo > hi THEN 0 ELSE v[hi] + SumOver(v, lo, hi - 1)
MeanOver(v, lo, hi) == Ratio(SumOver(v, lo, hi), hi - lo + 1)
WindowStart(i, w) == IF i - w + 1 > 1 THEN i - w + 1 ELSE 1

\* C11: the rolling mean column holds, at every index i, the arithmetic mean
\* of the min(W, i+1) observations ending at i, for the script's window
\* W = 1260 and for every shorter window applied to the same series; for
\* W = 3 over [1,2,3,4,5] the means are [1, 1.5, 2, 3, 4].
C11_RollingMean == /\ (Computed => /\ window = 1260 /\ DOMAIN stock_ebs_lg_df.ma_5y = DOMAIN Obs /\ (\A i \in DOMAIN Obs : stock_ebs_lg_df.ma_5y[i] = MeanOver(Obs, WindowStart(i, window), i)) /\ (\A w \in 1..Len(Obs) : \A i \in DOMAIN Obs : rolling_mean(Obs, w, min_periods)[i] = MeanOver(Obs, WindowStart(i, w), i))) /\ rolling_mean(<<1, 2, 3, 4, 5>>, 3, 1) = <<Ratio(1, 1), Ratio(3, 2), Ratio(2, 1), Ratio(3, 1), Ratio(4, 1)>>

\* Four observations computed, whose window of 2 at the last index leaves
\* the first two out: the mean of [1,2,3,3] over it is 3, over all it is 9/4.
C11_Witness == Computed /\ Obs = <<1, 2, 3, 3>> /\ stock_ebs_lg_df.ma_5y[4] = Ratio(9, 4) /\ rolling_mean(Obs, 2, min_periods)[4] = Ratio(3, 1)

\* b is m + k * sd: both NaN-free and equal as fractions when the deviation
\* is a fraction, the formal sum m + k * Root(r) otherwise, NaN when either
\* operand is NaN.
BandIs(b, m, k, sd) == IF m = NaN \/ sd = NaN THEN b = NaN ELSE IF sd.kind = "ratio" THEN b.kind = "ratio" /\ b.n * m.d * sd.d = (m.n * sd.d + k * sd.n * m.d) * b.d ELSE b = [kind |-> "surd", mean |-> m, k |-> k, std |-> sd]
DerivedColumns == {"ma_5y", "std_5y", "plus_1_std", "minus_1_std", "plus_2_std", "minus_2_std"}
Prefix(v, i) == SubSeq(v, 1, i)

\* C12: at every index the four band columns are the rolling mean plus and
\* minus one and two rolling deviations; the mean, the deviation and the
\* bands at index i are those computed from v[0..i] alone, for the script's
\* window and for every shorter one, and the run after one more observation
\* was published leaves the values of the previous run unchanged.
C12_BandsCausal == Computed => /\ (\A i \in DOMAIN Obs : /\ BandIs(stock_ebs_lg_df.plus_1_std[i], stock_ebs_lg_df.ma_5y[i], 1, stock_ebs_lg_df.std_5y[i]) /\ BandIs(stock_ebs_lg_df.minus_1_std[i], stock_ebs_lg_df.ma_5y[i], 0 - 1, stock_ebs_lg_df.std_5y[i]) /\ BandIs(stock_ebs_lg_df.plus_2_std[i], stock_ebs_lg_df.ma_5y[i], 2, stock_ebs_lg_df.std_5y[i]) /\ BandIs(stock_ebs_lg_df.minus_2_std[i], stock_ebs_lg_df.ma_5y[i], 0 - 2, stock_ebs_lg_df.std_5y[i])) /\ (\A w \in (1..Len(Obs)) \cup {window} : \A i \in DOMAIN Obs : /\ rolling_mean(Obs, w, min_periods)[i] = rolling_mean(Prefix(Obs, i), w, min_periods)[i] /\ rolling_std(Obs, w, min_periods)[i] = rolling_std(Prefix(Obs, i), w, min_periods)[i]) /\ (\A i \in DOMAIN Obs : \A c \in DerivedColumns : stock_ebs_lg_df[c][i] = WithIndicators(Prefix(Obs, i))[c][i]) /\ (earlier_run # None => \A c \in DerivedColumns : \A i \in DOMAIN earlier_run.spread : stock_ebs_lg_df[c][i] = earlier_run[c][i])

\* The run on [1,3,2] after the run on [1,3]: no deviation at the first
\* index, an irrational one at the second, bands 3 and 0 around the mean 2
\* at the third.
C12_Witness == Computed /\ earlier_run # None /\ earlier_run.spread = <<1, 3>> /\ Obs = <<1, 3, 2>> /\ stock_ebs_lg_df.std_5y[1] = NaN /\ stock_ebs_lg_df.std_5y[2] = Root(Ratio(2, 1)) /\ stock_ebs_lg_df.plus_1_std[3] = Ratio(3, 1) /\ stock_ebs_lg_df.minus_2_std[3] = Ratio(0, 1)

\* ---------------------------------------------------- snapshot properties
\* A table was loaded and has rows and columns.
Loaded(table) == table # None /\ ~IsEmpty(table)
\* The cell of `column` in the row of the table's latest date.
AtMaxDate(table, column) == table.data[column][Max(Dates(table))]
GroupComplete(group, table, fields) == Loaded(table) => /\ group # Absent /\ DOMAIN group = {"date", "values"} /\ DOMAIN group.values = DOMAIN fields /\ \A f \in DOMAIN fields : ~HasColumn(table, fields[f]) => group.values[f] = Null

\* C13: for a non-empty auxiliary table the Snapshot group holds a date and
\* every field name of its fixed set; a field whose column the table lacks
\* is null; no table content makes the extraction fail.
C13_GroupShape == /\ "err_prepare_failed" \notin log /\ (pc = "snapshot" => GroupComplete(market_data.buffett_indicator, buffett_df, BuffettFields) /\ GroupComplete(market_data.equity_bond_spread, spread_df, SpreadFields))

\* Both tables lack a column and both groups hold null for it, beside the
\* values of the columns that exist.
C13_Witness == pc = "snapshot" /\ Loaded(buffett_df) /\ Loaded(spread_df) /\ ~HasColumn(buffett_df, "GDP") /\ ~HasColumn(spread_df, "csi300_index") /\ market_data.buffett_indicator.values.gdp = Null /\ market_data.equity_bond_spread.values.csi300_index = Null /\ market_data.buffett_indicator.values.close_price # Null

\* C14 as stated: no Snapshot value, in latest_values or in either group,
\* is an undefined number; an undefined cell of the extracted row is null.
C14_UndefinedIsNull == pc = "snapshot" => /\ (\A k \in DOMAIN market_data.latest_values : market_data.latest_values[k] # NaN) /\ (Loaded(buffett_df) => \A f \in DOMAIN BuffettFields : market_data.buffett_indicator.values[f] # NaN) /\ (Loaded(spread_df) => \A f \in DOMAIN SpreadFields : market_data.equity_bond_spread.values[f] # NaN)

\* C15 as stated: the Panel's and each table's date tag is the table's
\* latest date and the values are those of the row of that date.
C15_TaggedWithMaxDate == pc = "snapshot" => /\ market_data.latest_date = Max(Dates(df)) /\ (\A k \in DOMAIN market_data.latest_values : market_data.latest_values[k] = AtMaxDate(df, k)) /\ (Loaded(buffett_df) => /\ market_data.buffett_indicator.date = Max(Dates(buffett_df)) /\ \A f \in DOMAIN BuffettFields : HasColumn(buffett_df, BuffettFields[f]) => market_data.buffett_indicator.values[f] = AtMaxDate(buffett_df, BuffettFields[f])) /\ (Loaded(spread_df) => /\ market_data.equity_bond_spread.date = Max(Dates(spread_df)) /\ \A f \in DOMAIN SpreadFields : HasColumn(spread_df, SpreadFields[f]) => market_data.equity_bond_spread.values[f] = AtMaxDate(spread_df, SpreadFields[f]))

\* C16: a missing or unreadable file gives no table; the run still reaches
\* the Snapshot, which holds latest_date and latest_values and leaves out
\* exactly the groups whose table is missing or empty; each group and
\* latest_values are what they would be without the other table.
C16_MissingTableIsLocal == /\ load_buffett_indicator_data(NoFile) = None /\ load_buffett_indicator_data(Unreadable) = None /\ load_equity_bond_spread_data(NoFile) = None /\ load_equity_bond_spread_data(Unreadable) = None /\ "err_prepare_failed" \notin log /\ (pc = "snapshot" => /\ market_data # None /\ market_data.latest_date = df.index[Len(df.index)] /\ DOMAIN market_data.latest_values = Cols(df) /\ (market_data.buffett_indicator = Absent <=> ~Loaded(buffett_df)) /\ (market_data.equity_bond_spread = Absent <=> ~Loaded(spread_df)) /\ market_data.equity_bond_spread = prepare_market_data_for_analysis(df, None, spread_df).equity_bond_spread /\ market_data.buffett_indicator = prepare_market_data_for_analysis(df, buffett_df, None).buffett_indicator /\ market_data.latest_values = prepare_market_data_for_analysis(df, None, None).latest_values /\ market_data.latest_date = prepare_market_data_for_analysis(df, None, None).latest_date)

\* A Snapshot made without the first table: its group is left out, the
\* other group is there.
C16_Witness == pc = "snapshot" /\ buffett_df = None /\ Loaded(spread_df) /\ market_data.buffett_indicator = Absent /\ market_data.equity_bond_spread # Absent /\ market_data.equity_bond_spread.date = 2

\* ------------------------------------------------------ report properties
\* d lies within one calendar month before `last`, inclusive: in the same
\* month up to `last`, or in the month before on or after the same day (the
\* month's last day if it is shorter).
WithinMonthBefore(d, last) == d <= last /\ (MonthOf(d) = MonthOf(last) \/ (MonthOf(d) = MonthOf(last) - 1 /\ (DayOf(d) >= DayOf(last) \/ DayOf(d) = MonthLengths[MonthOf(d)])))
IsPermutation(s, t) == Len(s) = Len(t) /\ Range(s) = Range(t) /\ Cardinality(Range(s)) = Len(s)
\* The elements of s that are in S, as a sequence in the order of s.
Among(s, S) == SelectSeq(s, LAMBDA x : x \in S)
Descending(s) == \A i \in 1..(Len(s) - 1) : s[i] > s[i + 1]
Ascending(s) == \A i \in 1..(Len(s) - 1) : s[i] < s[i + 1]
ReportWritten == pc = "done" /\ "report_md" \in files

\* The table of a written report against the Panel it was made from.
TrailingMonthTable == ReportWritten => /\ markdown_table # None /\ Range(markdown_table.index) = {d \in Dates(df) : WithinMonthBefore(d, Max(Dates(df)))} /\ Descending(markdown_table.index) /\ IsPermutation(markdown_table.columns, df.columns) /\ Among(markdown_table.columns, Range(priority_columns)) = Among(priority_columns, Cols(df)) /\ Among(markdown_table.columns, Cols(df) \ Range(priority_columns)) = Among(df.columns, Cols(df) \ Range(priority_columns)) /\ (\A i \in DOMAIN markdown_table.columns : \A j \in DOMAIN markdown_table.columns : markdown_table.columns[i] \in Range(priority_columns) /\ markdown_table.columns[j] \notin Range(priority_columns) => i < j) /\ (\A c \in Cols(df) : \A d \in Range(markdown_table.index) : markdown_table.data[c][d] = df.data[c][d]) /\ Ascending(df.index) /\ HasColumn(df, ChinaYield)
\* C17: writing the reports leaves the Panel as it was, and the table under
\* the written report holds exactly the Panel rows dated within one calendar
\* month before the Panel's last date, newest first, with the Panel's
\* values; its columns are a permutation of the Panel's, the priority
\* columns that exist first in priority order, the others after them in
\* their Panel order.
C17_TrailingMonthTable == []TrailingMonthTable /\ [][pc = "report" => df' = df]_vars

\* A report on a Panel dated 27 February, 28 February and 31 March with all
\* four columns: the table leaves 27 February out and starts with 31 March;
\* the yield and the spot price come first.
C17_Witness == ReportWritten /\ df.index = <<58, 59, 90>> /\ markdown_table.index = <<90, 59>> /\ df.columns = <<GoldSpot, GoldFuture, GoldBasis, ChinaYield>> /\ markdown_table.columns = <<ChinaYield, GoldSpot, GoldFuture, GoldBasis>>

\* What generate_market_summary returns when it could not produce a report
\* text: the message of line 374 or one of the messages of lines 466, 471.
ErrorOutcome(a) == a # None /\ a.text \in {"no_api_key", "failed_bad_response", "failed_exception"}
ReportFiles == {"analysis_json", "report_md"}
SnapshotFiles == {"snapshot_latest_json", "snapshot_dated_json"}

\* C18: the Snapshot files are written before the report text is asked for
\* (none appears after it, and no report text exists before the Snapshot
\* step is over), and a run whose report text is an error outcome, the
\* missing API key included, writes no analysis report file.
C18_ReportsOnlyOnSuccess == /\ (analysis # None => pc \in {"report", "done"}) /\ (files \cap SnapshotFiles # {} => pc \in {"summary", "report", "done"}) /\ (files \cap ReportFiles # {} => pc = "done") /\ (pc = "done" /\ ErrorOutcome(analysis) => files \cap ReportFiles = {})
====
